---- MODULE Spec2Model ----
(***************************************************************************)
(* A model of viswaternet's drawing layer (viswaternet/drawing/base.py)    *)
(* and of the binned-size example script (Examples/meanstd.py).            *)
(*                                                                         *)
(* The library is a set of synchronous functions.  A state of the model is *)
(* one call: which function ran (op), the arguments it got (args) and what *)
(* it handed to the plotting layer or returned (ret).  pc is "idle"        *)
(* between calls; Return drops the finished call, as nothing persists      *)
(* from one call to the next.                                              *)
(*                                                                         *)
(* Numbers.  Data values are integers counted in units of 5e-6, so that    *)
(* the threshold -1e-5 of draw_nodes / draw_links is the integer -2, the   *)
(* value -1 is a "tiny negative" inside (-1e-5, 0) and -3 is below the     *)
(* threshold.  Quotients are kept exact as [num, den] records.             *)
(*                                                                         *)
(* Python's None is the empty tuple <<>>, a present value v is <<v>>.  A   *)
(* keyword that a call does not pass is recorded as None, which is the     *)
(* default of that keyword in networkx (vmin, vmax, edge_vmin, edge_vmax,  *)
(* label).                                                                 *)
(***************************************************************************)
EXTENDS Integers, Sequences, FiniteSets, TLC

VARIABLES pc, op, args, ret

vars == <<pc, op, args, ret>>

None == <<>>

Some(x) == <<x>>

Val(o) == o[1]

\* ------------------------------------------------------------ bounds
\* Longest data series handed to draw_nodes / draw_links.
MaxLen == 2

\* Data values range over -MaxVal..MaxVal (units of 5e-6).
MaxVal == 3

\* Longest node_list handed to draw_nodes.
MaxNodes == 1

\* Output sizes of a (min_size, max_size) tuple range over 1..MaxOut.
MaxOut == 2

\* Longest element / value list handed to bin_parameter.
MaxBinLen == 3

\* Finite values handed to bin_parameter range over -1..MaxBinVal.
MaxBinVal == 3

\* Interval counts handed to bin_parameter range over 0..MaxK.
MaxK == 4

\* The example script's interval_sizes has 0..MaxSizes entries.
MaxSizes == 5

\* Sizes and widths in a node_size / link_width list range over 1..MaxSize.
MaxSize == 3

\* element_size_intervals ranges over 0..MaxSizeIntervals.
MaxSizeIntervals == 3

\* element_size_legend_labels has 0..MaxLabels entries.
MaxLabels == 3

\* The intervals argument of draw_legend has 0..MaxIntervals entries, and the
\* axes hold 0..MaxIntervals labelled handles of drawn data intervals.
MaxIntervals == 2

\* The axes hold 0..MaxBase labelled handles of base elements.
MaxBase == 2

\* The longest list of labels, offsets or nodes given to draw_label.
MaxEntries == 2

\* Marker sizes are kept to 1/Scale of a point.
Scale == 10

\* ------------------------------------------------------------ helpers
RECURSIVE SeqsUpTo(_, _)
\* All sequences over S of length 0..n.
SeqsUpTo(S, n) ==
    IF n = 0 THEN {<<>>}
    ELSE LET shorter == SeqsUpTo(S, n - 1)
         IN  shorter \cup {Append(s, x) : s \in {t \in shorter : Len(t) = n - 1}, x \in S}

Range(s) == {s[i] : i \in 1..Len(s)}

\* np.min / np.max of a non-empty list of finite numbers.
NpMin(s) == CHOOSE x \in Range(s) : \A y \in Range(s) : x <= y

NpMax(s) == CHOOSE x \in Range(s) : \A y \in Range(s) : x >= y

Abs(x) == IF x < 0 THEN -x ELSE x

\* The first n entries of s (all of s when it is shorter).
Prefix(s, n) == [i \in 1..(IF n < Len(s) THEN n ELSE Len(s)) |-> s[i]]

\* ------------------------------------------------------------ the network
\* model["pipe_list"]: the edges of the model's pipes, in the model's order.
\* An edge is written as the name of the link it belongs to.
pipe_list == <<"L1", "L2">>

\* The node names of the model, in the model's order.
node_names == <<"J1", "J2", "J3", "J4">>

\* ------------------------------------------------------------ results
\* A call that completed, with what it produced; a call that raised.
Ok(x) == [status |-> "ok", error |-> "", out |-> x]

Raised(e) == [status |-> "raised", error |-> e, out |-> None]

\* ------------------------------------------------------------ sizes
\* A node_size / link_width argument: None, one number, a list of numbers, a
\* (min_size, max_size) tuple of optional numbers, or (after normalising) a list
\* of exact quotients.
SizeNone == [kind |-> "none", v |-> None]

SizeScalar(n) == [kind |-> "scalar", v |-> n]

SizeList(l) == [kind |-> "list", v |-> l]

SizeTuple(lo, hi) == [kind |-> "tuple", v |-> <<lo, hi>>]

SizeScaled(l) == [kind |-> "scaled", v |-> l]

\* (np.ones(len(node_list)) * 100): the size of a node when none is given.
DefaultNodeSize == 100

\* (np.ones(len(link_list)) * 1): the width of a link when none is given.
DefaultLinkWidth == 1

\* The value below which a data minimum counts as negative: -1e-5, in units of 5e-6.
NegEps == -2

\* Each value rescaled linearly from the series' observed [min, max] onto
\* [lo, hi], as an exact quotient; a constant series maps to the midpoint.
Rescale(values, lo, hi) ==
    LET mn == NpMin(values)
        mx == NpMax(values)
    IN  [i \in 1..Len(values) |->
            IF mn = mx THEN [num |-> lo + hi, den |-> 2]
            ELSE [num |-> lo * (mx - mn) + (values[i] - mn) * (hi - lo), den |-> mx - mn]]

\* normalize_parameter(parameter_results, min_size, max_size): the possible
\* outcomes.  InvalidRange when lo > hi.  What an empty series gives is not
\* stated: it is either an empty list or EmptySeries.
normalize_parameter(values, lo, hi) ==
    IF lo > hi THEN {Raised("InvalidRange")}
    ELSE IF values = <<>> THEN {Ok(<<>>), Raised("EmptySeries")}
    ELSE {Ok(Rescale(values, lo, hi))}

\* ResolveNodeSize without the normalising branch: a tuple is handed on as it is.
ResolveNodeSizeMutantKeep(node_size, node_list, parameter_results) ==
    IF node_size.kind = "none"
    THEN {Ok(SizeList([i \in 1..Len(node_list) |-> DefaultNodeSize]))}
    ELSE {Ok(node_size)}

\* ResolveNodeSize with min_size and max_size handed to normalize_parameter in
\* the wrong order.
ResolveNodeSizeMutantSwap(node_size, node_list, parameter_results) ==
    IF node_size.kind = "none"
    THEN {Ok(SizeList([i \in 1..Len(node_list) |-> DefaultNodeSize]))}
    ELSE IF node_size.kind = "tuple" /\ node_size.v[1] # None /\ node_size.v[2] # None
    THEN {IF r.status = "ok" THEN Ok(SizeScaled(r.out)) ELSE r :
             r \in normalize_parameter(parameter_results,
                                       Val(node_size.v[2]), Val(node_size.v[1]))}
    ELSE {Ok(node_size)}

\* draw_nodes, lines 64-72: the node_size handed on.  None becomes one default
\* size per node of node_list; a tuple with both entries set is replaced by the
\* normalised data; anything else is kept.
ResolveNodeSize(node_size, node_list, parameter_results) ==
    IF node_size.kind = "none"
    THEN {Ok(SizeList([i \in 1..Len(node_list) |-> DefaultNodeSize]))}
    ELSE IF node_size.kind = "tuple" /\ node_size.v[1] # None /\ node_size.v[2] # None
    THEN {IF r.status = "ok" THEN Ok(SizeScaled(r.out)) ELSE r :
             r \in normalize_parameter(parameter_results,
                                       Val(node_size.v[1]), Val(node_size.v[2]))}
    ELSE {Ok(node_size)}

\* ------------------------------------------------------------ colour domain
\* NodeDomain testing the magnitude of the minimum instead of its sign.
NodeDomainMutantAbs(parameter_results, vmin, vmax) ==
    IF parameter_results # <<>> /\ Abs(NpMin(parameter_results)) > Abs(NegEps)
       /\ vmin = None /\ vmax = None
    THEN [vmin |-> Some(-NpMax(parameter_results)), vmax |-> Some(NpMax(parameter_results))]
    ELSE IF parameter_results # <<>> THEN [vmin |-> vmin, vmax |-> vmax]
    ELSE [vmin |-> None, vmax |-> None]

\* NodeDomain forcing the symmetric domain as soon as one endpoint is missing.
NodeDomainMutantEither(parameter_results, vmin, vmax) ==
    IF parameter_results # <<>> /\ NpMin(parameter_results) < NegEps
       /\ (vmin = None \/ vmax = None)
    THEN [vmin |-> Some(-NpMax(parameter_results)), vmax |-> Some(NpMax(parameter_results))]
    ELSE IF parameter_results # <<>> THEN [vmin |-> vmin, vmax |-> vmax]
    ELSE [vmin |-> None, vmax |-> None]

\* NodeDomain taking the symmetric domain from the first value of the series
\* instead of its maximum.
NodeDomainMutantFirst(parameter_results, vmin, vmax) ==
    IF parameter_results # <<>> /\ NpMin(parameter_results) < NegEps
       /\ vmin = None /\ vmax = None
    THEN [vmin |-> Some(-parameter_results[1]), vmax |-> Some(parameter_results[1])]
    ELSE IF parameter_results # <<>> THEN [vmin |-> vmin, vmax |-> vmax]
    ELSE [vmin |-> None, vmax |-> None]

\* draw_nodes, lines 74-126: the (vmin, vmax) keywords handed to the drawing call.
\*   data with a minimum below -1e-5, no endpoint given: (-max, +max);
\*   data with a minimum below -1e-5, an endpoint given: the caller's two;
\*   other data:  the caller's two (none passed when none was given);
\*   no data:     none passed.
NodeDomain(parameter_results, vmin, vmax) ==
    IF parameter_results # <<>>
    THEN IF NpMin(parameter_results) < NegEps
         THEN IF vmin = None /\ vmax = None
              THEN [vmin |-> Some(-NpMax(parameter_results)),
                    vmax |-> Some(NpMax(parameter_results))]
              ELSE [vmin |-> vmin, vmax |-> vmax]
         ELSE IF vmin = None /\ vmax = None
              THEN [vmin |-> None, vmax |-> None]
              ELSE [vmin |-> vmin, vmax |-> vmax]
    ELSE [vmin |-> None, vmax |-> None]

\* draw_links, lines 178-238: the (edge_vmin, edge_vmax) keywords handed to the
\* drawing call, decided as in draw_nodes.
LinkDomain(parameter_results, vmin, vmax) ==
    IF parameter_results # <<>>
    THEN IF NpMin(parameter_results) < NegEps
         THEN IF vmin = None /\ vmax = None
              THEN [vmin |-> Some(-NpMax(parameter_results)),
                    vmax |-> Some(NpMax(parameter_results))]
              ELSE [vmin |-> vmin, vmax |-> vmax]
         ELSE IF vmin = None /\ vmax = None
              THEN [vmin |-> None, vmax |-> None]
              ELSE [vmin |-> vmin, vmax |-> vmax]
    ELSE [vmin |-> None, vmax |-> None]

\* ------------------------------------------------------------ draw_nodes
\* The label keyword: the branches for data whose minimum is not below -1e-5 do
\* not pass it on.
NodeLabel(parameter_results, label) ==
    IF parameter_results # <<>> /\ ~(NpMin(parameter_results) < NegEps)
    THEN None
    ELSE label

\* draw_nodes(ax, node_list, parameter_results, vmin, vmax, node_size, label):
\* the draw_networkx_nodes call it makes, or the error it raises.  The style
\* keywords (cmap, node_shape, border colour and width) are handed on as given
\* and are left out.  parameter_results is a Python list, whose truth value is
\* "not empty".
draw_nodes(a) ==
    {IF s.status = "raised" THEN s
     ELSE Ok([fn        |-> "draw_networkx_nodes",
              list      |-> a.node_list,
              size      |-> s.out,
              colour    |-> IF a.parameter_results # <<>> THEN "data" ELSE "node_color",
              vmin      |-> NodeDomain(a.parameter_results, a.vmin, a.vmax).vmin,
              vmax      |-> NodeDomain(a.parameter_results, a.vmin, a.vmax).vmax,
              label     |-> NodeLabel(a.parameter_results, a.label),
              returns   |-> IF a.parameter_results # <<>> THEN "g" ELSE "None"]) :
        s \in ResolveNodeSize(a.node_size, a.node_list, a.parameter_results)}

\* ------------------------------------------------------------ draw_links
\* [model["pipe_list"][i] for i, name in enumerate(link_list)]: one edge per
\* entry of link_list, taken from pipe_list by position.
EdgeList(link_list) == [i \in 1..Len(link_list) |-> pipe_list[i]]

\* draw_links lines 175-176: the width handed on.
ResolveLinkWidth(link_width, link_list) ==
    IF link_width.kind = "none"
    THEN SizeList([i \in 1..Len(link_list) |-> DefaultLinkWidth])
    ELSE link_width

\* draw_links(ax, link_list, parameter_results, link_width, vmin, vmax): the
\* draw_networkx_edges call it makes; IndexError when link_list is longer than
\* pipe_list.
draw_links(a) ==
    IF Len(a.link_list) > Len(pipe_list) THEN {Raised("IndexError")}
    ELSE {Ok([fn        |-> "draw_networkx_edges",
              list      |-> EdgeList(a.link_list),
              size      |-> ResolveLinkWidth(a.link_width, a.link_list),
              colour    |-> IF a.parameter_results # <<>> THEN "data" ELSE "edge_color",
              vmin      |-> LinkDomain(a.parameter_results, a.vmin, a.vmax).vmin,
              vmax      |-> LinkDomain(a.parameter_results, a.vmin, a.vmax).vmax,
              label     |-> None,
              returns   |-> IF a.parameter_results # <<>> THEN "g" ELSE "None"])}

\* ------------------------------------------------------------ bin_parameter
\* A value that is not a finite number (nan, inf, -inf).  It is never used in
\* arithmetic: bin_parameter rejects a series that holds one.
NaN == MaxBinVal + 1

IsFinite(v) == v # NaN

\* BinViolations without the check for non-finite values.
BinViolationsMutantNoFiniteCheck(values, elements, k) ==
    {e \in {"InvalidIntervalCount", "EmptySeries", "LengthMismatch"} :
        \/ e = "InvalidIntervalCount" /\ k < 1
        \/ e = "EmptySeries" /\ Len(elements) = 0
        \/ e = "LengthMismatch" /\ Len(elements) # Len(values)}

\* The error kinds whose condition the input meets.  All are detected before any
\* result is computed; which is reported when several apply is not stated.
BinViolations(values, elements, k) ==
    {e \in {"InvalidIntervalCount", "EmptySeries", "LengthMismatch", "NonFiniteValue"} :
        \/ e = "InvalidIntervalCount" /\ k < 1
        \/ e = "EmptySeries" /\ Len(elements) = 0
        \/ e = "LengthMismatch" /\ Len(elements) # Len(values)
        \/ e = "NonFiniteValue" /\ \E i \in 1..Len(values) : ~IsFinite(values[i])}

\* The number of intervals: k, or one when the series is constant.
IntervalCount(values, k) == IF NpMin(values) = NpMax(values) THEN 1 ELSE k

\* Interval i of n over [mn, mx], as exact quotients lo/den and hi/den: the
\* boundaries are mn + j * (mx - mn) / n for j = 0..n.  The label of the interval
\* is its "low-high" range; the rounding of the printed numbers is left out.
IntervalName(values, n, i) ==
    LET mn == NpMin(values)
        mx == NpMax(values)
    IN  [lo  |-> mn * n + (i - 1) * (mx - mn),
         hi  |-> mn * n + i * (mx - mn),
         den |-> n]

\* InInterval with a boundary value given to the higher-numbered interval.
InIntervalMutantHalfOpenUp(values, n, i, v) ==
    LET nm == IntervalName(values, n, i)
    IN  \/ nm.lo <= v * nm.den /\ v * nm.den < nm.hi
        \/ i = n /\ v * nm.den = nm.hi

\* InInterval with the first interval open at the minimum.
InIntervalMutantOpenMin(values, n, i, v) ==
    LET nm == IntervalName(values, n, i)
    IN  nm.lo < v * nm.den /\ v * nm.den <= nm.hi

\* Whether value v belongs to interval i of n: above the lower boundary and up
\* to the upper one, the upper boundary included (so a value on an interior
\* boundary belongs to the lower-numbered interval and the maximum to the
\* last); the first interval also holds the minimum.
InInterval(values, n, i, v) ==
    LET nm == IntervalName(values, n, i)
    IN  \/ nm.lo < v * nm.den /\ v * nm.den <= nm.hi
        \/ i = 1 /\ v * nm.den = nm.lo

\* bin_parameter(values, elements, k): the partition (interval name -> set of
\* elements) and the interval names in ascending order, or the error raised.
bin_parameter(values, elements, k) ==
    IF BinViolations(values, elements, k) # {}
    THEN {Raised(e) : e \in BinViolations(values, elements, k)}
    ELSE LET n     == IntervalCount(values, k)
             names == [i \in 1..n |-> IntervalName(values, n, i)]
         IN  {Ok([interval_names |-> names,
                  binned |-> [nm \in Range(names) |->
                                 {elements[j] : j \in
                                     {j \in 1..Len(elements) :
                                         \E i \in 1..n : /\ names[i] = nm
                                                          /\ InInterval(values, n, i, values[j])}}]])}

\* ------------------------------------------------------------ meanstd.py
\* elmnt_list.index(element): the first position of element in elmnt_list.
IndexOf(elmnt_list, element) ==
    CHOOSE i \in 1..Len(elmnt_list) :
        /\ elmnt_list[i] = element
        /\ \A j \in 1..(i - 1) : elmnt_list[j] # element

\* zip(interval_names, interval_sizes): pairs up to the shorter of the two.
ZipLen(interval_names, interval_sizes) ==
    IF Len(interval_names) < Len(interval_sizes)
    THEN Len(interval_names)
    ELSE Len(interval_sizes)

\* Lines 20-25 of the example: node_sizes starts as [None] * len(elmnt_list);
\* each zipped (interval_name, size) gives size to the elements of that interval.
\* Later pairs overwrite earlier ones.
NodeSizes(elmnt_list, binned, interval_names, interval_sizes) ==
    [j \in 1..Len(elmnt_list) |->
        LET hits == {i \in 1..ZipLen(interval_names, interval_sizes) :
                        \E e \in binned[interval_names[i]] :
                            IndexOf(elmnt_list, e) = j}
        IN  IF hits = {} THEN None
            ELSE Some(interval_sizes[CHOOSE i \in hits : \A h \in hits : h <= i])]

\* ------------------------------------------------------------ draw_legend
\* A legend handle: its label, what it shows, and its marker size (in 1/Scale
\* of a point) or line width (an exact quotient) when it has one.
Handle(label, shows, markersize, linewidth) ==
    [label |-> label, shows |-> shows, markersize |-> markersize, linewidth |-> linewidth]

\* Line2D([0], [0], color=..., linestyle=..., lw=4, label=...), lines 687-703.
LineHandle(label) == Handle(label, "line", None, Some([num |-> 4, den |-> 1]))

\* Extensions with no entry for pumps or pipes that are drawn with arrows.
ExtensionsMutantArrowsDropEntry(draw_pumps, pump_arrows, draw_base_links, base_link_arrows) ==
    (IF draw_pumps /\ ~pump_arrows THEN <<LineHandle("draw_pumps")>> ELSE <<>>)
    \o
    (IF draw_base_links /\ ~base_link_arrows THEN <<LineHandle("Pipes")>> ELSE <<>>)

\* Lines 680-705: the entries appended to the handles of the axes.  pump_arrows
\* and base_link_arrows choose between two branches that append the same entry.
Extensions(draw_pumps, pump_arrows, draw_base_links, base_link_arrows) ==
    (IF draw_pumps
     THEN IF pump_arrows THEN <<LineHandle("draw_pumps")>> ELSE <<LineHandle("draw_pumps")>>
     ELSE <<>>)
    \o
    (IF draw_base_links
     THEN IF base_link_arrows THEN <<LineHandle("Pipes")>> ELSE <<LineHandle("Pipes")>>
     ELSE <<>>)

\* handles[n:] and handles[:n] for n >= 0.
SliceFrom(h, n) == IF n >= Len(h) THEN <<>> ELSE SubSeq(h, n + 1, Len(h))

SliceTo(h, n) == IF n >= Len(h) THEN h ELSE SubSeq(h, 1, n)

Legend(which, handles) == [which |-> which, handles |-> handles]

\* Lines 673-738: the base-elements legend and the intervals legend added to the
\* axes, in the order they are added.
BaseLegends(a) ==
    LET intervals == IF a.intervals = None THEN <<>> ELSE Val(a.intervals)
        handles   == a.ax_handles \o Extensions(a.draw_pumps, a.pump_arrows,
                                                a.draw_base_links, a.base_link_arrows)
    IN  IF intervals # <<>>
        THEN (IF a.draw_base_legend
              THEN <<Legend("base", SliceFrom(handles, Len(intervals)))>> ELSE <<>>)
             \o
             (IF a.draw_intervals_legend
              THEN <<Legend("intervals", SliceTo(handles, Len(intervals)))>> ELSE <<>>)
        ELSE IF a.draw_base_legend THEN <<Legend("base", handles)>> ELSE <<>>

\* np.linspace(start, stop, num): num evenly spaced samples from start to stop,
\* as exact quotients; one sample is start alone.
Linspace(start, stop, num) ==
    [i \in 1..num |->
        IF num = 1 THEN [num |-> start, den |-> 1]
        ELSE [num |-> start * (num - 1) + (i - 1) * (stop - start), den |-> num - 1]]

\* The integer square root.
ISqrt(n) == CHOOSE r \in 0..n : r * r <= n /\ n < (r + 1) * (r + 1)

\* np.sqrt(size) of a quotient, in 1/Scale of a point (rounded down).
NpSqrt(q) == ISqrt((q.num * Scale * Scale) \div q.den)

\* NodeSizeHandle with the size itself as the marker size.
NodeSizeHandleMutantNoSqrt(size, label) ==
    Handle(label, "marker", Some((size.num * Scale) \div size.den), None)

\* Lines 755-759: the legend entry of a node size, markersize=np.sqrt(size).
NodeSizeHandle(size, label) == Handle(label, "marker", Some(NpSqrt(size)), None)

\* Lines 775-776: the legend entry of a link width, linewidth=size.
LinkWidthHandle(size, label) == Handle(label, "line", None, Some(size))

\* Lines 750-759 and 770-776: the entries of an element-size legend for the list
\* `sizes`: zip(np.linspace(min, max, element_size_intervals), labels).  The
\* outcome is the list of entries or the error raised on the way.
SizeEntries(sizes, intervals, labels, forNodes) ==
    IF sizes = <<>> THEN Raised("ValueError")
    ELSE IF intervals = None THEN Raised("TypeError")
    ELSE IF Val(intervals) < 0 THEN Raised("ValueError")
    ELSE IF labels = None THEN Raised("TypeError")
    ELSE LET marker_sizes == Linspace(NpMin(sizes), NpMax(sizes), Val(intervals))
             n == IF Len(marker_sizes) < Len(Val(labels))
                  THEN Len(marker_sizes) ELSE Len(Val(labels))
         IN  Ok([i \in 1..n |->
                    IF forNodes THEN NodeSizeHandle(marker_sizes[i], Val(labels)[i])
                    ELSE LinkWidthHandle(marker_sizes[i], Val(labels)[i])])

\* draw_legend(ax, intervals, draw_pumps, node_size, link_width, ...): the
\* legends added to the axes, in order, and the error that ended the call if one
\* did.  The legends added before an error stay on the axes.
draw_legend(a) ==
    LET first   == BaseLegends(a)
        doNode  == a.node_size.kind = "list"
        doLink  == a.link_width.kind = "list"
        nodeE   == SizeEntries(a.node_size.v, a.element_size_intervals,
                               a.element_size_legend_labels, TRUE)
        linkE   == SizeEntries(a.link_width.v, a.element_size_intervals,
                               a.element_size_legend_labels, FALSE)
        afterNode == IF doNode /\ nodeE.status = "ok"
                     THEN first \o <<Legend("node_size", nodeE.out)>> ELSE first
    IN  IF doNode /\ nodeE.status = "raised"
        THEN [status |-> "raised", error |-> nodeE.error, out |-> first]
        ELSE IF doLink /\ linkE.status = "raised"
        THEN [status |-> "raised", error |-> linkE.error, out |-> afterNode]
        ELSE IF doLink
        THEN Ok(afterNode \o <<Legend("link_width", linkE.out)>>)
        ELSE Ok(afterNode)

\* ------------------------------------------------------------ plot_basic_elements
\* Lines 408-451: the parameters of plot_basic_elements, the names bound in its
\* body.
PlotParams ==
    {"self", "ax", "draw_nodes", "draw_links", "draw_reservoirs", "draw_tanks",
     "draw_pumps", "draw_valves", "savefig", "save_name", "dpi", "save_format",
     "legend", "base_legend_loc", "font_size", "font_color",
     "legend_title_font_size", "draw_frame", "legend_sig_figs",
     "reservoir_size", "reservoir_color", "reservoir_shape",
     "reservoir_border_color", "reservoir_border_width",
     "tank_size", "tank_color", "tank_shape", "tank_border_color",
     "tank_border_width", "valve_size", "valve_color", "valve_shape",
     "valve_border_color", "valve_border_width", "pump_color", "pump_width",
     "pump_line_style", "pump_arrows", "base_node_color", "base_node_size",
     "base_link_color", "base_link_width", "base_link_line_style",
     "base_link_arrows"}

\* Lines 6-12 and the def statements: the names bound at module level.
ModuleNames ==
    {"np", "nxp", "plt", "mpl", "Line2D", "make_axes_locatable", "save_fig",
     "normalize_parameter", "draw_nodes", "draw_links", "draw_base_elements",
     "plot_basic_elements", "draw_legend", "draw_color_bar", "draw_label"}

\* Lines 561-578: the names read to build the call of draw_base_elements.
BaseElementsCallReads ==
    {"draw_base_elements", "self", "ax", "draw_nodes", "drareservoirs",
     "draw_tanks", "draw_links", "draw_valves", "draw_pumps",
     "reservoir_size", "reservoir_color", "reservoir_shape",
     "reservoir_border_color", "reservoir_border_width",
     "tank_size", "tank_color", "tank_shape", "tank_border_color",
     "tank_border_width", "valve_size", "valve_color", "valve_shape",
     "valve_border_color", "valve_border_width", "pump_color", "pump_width",
     "pump_line_style", "pump_arrows", "base_node_color", "base_node_size",
     "base_link_color", "base_link_width", "base_link_line_style",
     "base_link_arrows"}

\* Lines 583-591: the keywords of the draw_legend call of plot_basic_elements.
LegendCallKeywords ==
    {"draw_pumps", "base_legendloc", "font_size", "font_color",
     "legend_title_font_size", "draw_frame", "pump_color", "base_link_color",
     "pump_line_style", "base_link_line_style", "base_link_arrows",
     "pump_arrows", "draw_base_links"}

\* Lines 597-625: the parameters of draw_legend, which takes no **kwargs.
DrawLegendParams ==
    {"ax", "intervals", "title", "draw_pumps", "base_legend_loc",
     "discrete_legend_loc", "font_size", "font_color",
     "legend_title_font_size", "draw_frame", "pump_color", "base_link_color",
     "node_size", "link_width", "element_size_intervals",
     "element_size_legend_title", "element_size_legend_loc",
     "element_size_legend_labels", "draw_base_legend",
     "draw_intervals_legend", "node_border_color", "linewidths",
     "pump_line_style", "base_link_line_style", "base_link_arrows",
     "pump_arrows", "draw_base_links"}

\* What a plot_basic_elements call did: whether it made its own axes, the
\* value draw_pumps had after line 554, the functions it called in order, and
\* how it ended.
PlotOutcome(status, error, ax_created, draw_pumps, calls) ==
    [status |-> status, error |-> error,
     out |-> [ax_created |-> ax_created, draw_pumps |-> draw_pumps, calls |-> calls]]

\* plot_basic_elements(self, ax, ..., savefig, legend, ...), lines 552-594.
\* Reading a name that is bound nowhere raises NameError before the call it is
\* an argument of; a keyword the callee has no parameter for raises TypeError
\* before the callee runs.
plot_basic_elements(a) ==
    LET draw_pumps == IF ~a.has_pumps THEN FALSE ELSE a.draw_pumps
        ax_created == a.ax = None
        base   == <<"draw_base_elements">>
        legend == IF a.legend THEN <<"draw_legend">> ELSE <<>>
        save   == IF a.savefig THEN <<"save_fig">> ELSE <<>>
    IN  IF ~(BaseElementsCallReads \subseteq (PlotParams \cup ModuleNames))
        THEN PlotOutcome("raised", "NameError", ax_created, draw_pumps, <<>>)
        ELSE IF a.legend /\ ~(LegendCallKeywords \subseteq DrawLegendParams)
        THEN PlotOutcome("raised", "TypeError", ax_created, draw_pumps, base)
        ELSE PlotOutcome("ok", "", ax_created, draw_pumps, base \o legend \o save)

\* ------------------------------------------------------------ draw_label
\* model["wn"].get_node(node).coordinates of the nodes of the model.
coordinates ==
    ("J1" :> <<10, 20>>) @@ ("J2" :> <<30, 20>>) @@ ("J3" :> <<10, 40>>) @@ ("J4" :> <<30, 40>>)

\* An ax.text call: its position, its string, its horizontal alignment and the
\* coordinate system of the position ("data", or "axes" for transform=ax.transAxes).
Text(x, y, s, ha, transform) == [x |-> x, y |-> y, s |-> s, ha |-> ha, transform |-> transform]

\* Lines 871-900: the texts drawn for one entry when draw_nodes is given.  The
\* else belongs to `if draw_arrow == True`.
LabelTexts(label, node, xCoord, yCoord, draw_arrow) ==
    LET x == coordinates[node][1] + xCoord
        y == coordinates[node][2] + yCoord
    IN  IF draw_arrow = TRUE
        THEN (IF xCoord < 0 THEN <<Text(x, y, label, "right", "data")>> ELSE <<>>)
             \o (IF xCoord >= 0 THEN <<Text(x, y, label, "left", "data")>> ELSE <<>>)
        ELSE <<Text(x, y, label, "center", "data")>>

\* Lines 854-900: one pass of the loop over zip(labels, draw_nodes, x_coords,
\* y_coords).  st holds the nodes of model["G"], the keys of model["pos_dict"],
\* the edges and texts drawn so far.  With an arrow and label # node the label
\* is added as a node, the edge (node, label) is drawn and the label is removed
\* again, from the graph and from pos_dict, whether or not a node of that name
\* was there before.  draw_networkx_edges looks up the position of both ends of
\* the edge in pos_dict and raises KeyError for a missing one.
LabelStep(st, label, node, xCoord, yCoord, draw_arrow) ==
    LET arrow == draw_arrow /\ label # node
    IN  IF arrow /\ node \notin st.pos_dict
        THEN [st EXCEPT !.status = "raised", !.error = "KeyError",
                        !.G = st.G \cup {label},
                        !.pos_dict = st.pos_dict \cup {label}]
        ELSE [st EXCEPT !.G = IF arrow THEN st.G \ {label} ELSE st.G,
                        !.pos_dict = IF arrow THEN st.pos_dict \ {label} ELSE st.pos_dict,
                        !.edges = IF arrow THEN st.edges \o <<<<node, label>>>> ELSE st.edges,
                        !.texts = st.texts \o LabelTexts(label, node, xCoord, yCoord, draw_arrow)]

\* The number of tuples zip gives for lists of these lengths.
ZipCount(lens) == CHOOSE n \in lens : \A m \in lens : n <= m

RECURSIVE LabelLoop(_, _, _)
\* Lines 853-900: the loop, entry i onwards; it ends at the first error.
LabelLoop(st, a, i) ==
    IF st.status = "raised" THEN st
    ELSE IF i > ZipCount({Len(a.labels), Len(Val(a.draw_nodes)),
                          Len(a.x_coords), Len(a.y_coords)}) THEN st
    ELSE LabelLoop(LabelStep(st, a.labels[i], Val(a.draw_nodes)[i],
                             a.x_coords[i], a.y_coords[i], a.draw_arrow), a, i + 1)

\* draw_label(self, labels, x_coords, y_coords, ax, draw_nodes, draw_arrow):
\* the texts and edges drawn, and the graph and pos_dict it leaves behind.
draw_label(a) ==
    LET start == [status |-> "ok", error |-> "", G |-> Range(node_names),
                  pos_dict |-> Range(node_names), edges |-> <<>>, texts |-> <<>>]
        done  == IF a.draw_nodes # None
                 THEN LabelLoop(start, a, 1)
                 ELSE [start EXCEPT !.texts =
                         [i \in 1..ZipCount({Len(a.labels), Len(a.x_coords), Len(a.y_coords)}) |->
                             Text(a.x_coords[i], a.y_coords[i], a.labels[i], "center", "axes")]]
    IN  [status |-> done.status, error |-> done.error,
         out |-> [texts |-> done.texts, edges |-> done.edges,
                  G |-> done.G, pos_dict |-> done.pos_dict]]

\* ------------------------------------------------------------ inputs
Values == (-MaxVal)..MaxVal

Series == SeqsUpTo(Values, MaxLen)

\* Endpoints a caller gives: none, or one inside the data range.
VminChoices == {None, Some(-1)}

VmaxChoices == {None, Some(2)}

OptOut == {None} \cup {Some(s) : s \in 1..MaxOut}

NodeSizeChoices ==
    {SizeNone, SizeScalar(30)} \cup {SizeTuple(lo, hi) : lo \in OptOut, hi \in OptOut}

NodeLists == {Prefix(node_names, n) : n \in 0..MaxNodes}

\* link_list: the model's links, any subset in any order.
LinkLists == {l \in SeqsUpTo(Range(pipe_list), Len(pipe_list)) :
                 \A i, j \in 1..Len(l) : i # j => l[i] # l[j]}

LinkWidthChoices == {SizeNone, SizeScalar(3)}

BinValues == ((-1)..MaxBinVal) \cup {NaN}

BinSeries == SeqsUpTo(BinValues, MaxBinLen)

\* Element lists: distinct identifiers, in the caller's order.
ElementLists == {Prefix(node_names, n) : n \in 0..MaxBinLen}

\* interval_sizes = [100, 200, ...], one entry per interval the caller expects.
IntervalSizes == {[i \in 1..m |-> 100 * i] : m \in 0..MaxSizes}

\* The names of the data intervals, in ascending order.
interval_labels == <<"interval1", "interval2", "interval3", "interval4">>

\* The labels draw_base_elements gives the base elements it draws.
base_labels == <<"draw_reservoirs", "draw_tanks", "draw_valves">>

\* The caller's element_size_legend_labels, in the caller's order.
size_labels == <<"size1", "size2", "size3", "size4", "size5">>

\* The labelled handles already on the axes: those of the drawn data intervals,
\* then those of the base elements (reservoirs, tanks, valves).
AxHandles(d, b) ==
    [i \in 1..d |-> Handle(interval_labels[i], "data", None, None)]
    \o [i \in 1..b |-> Handle(base_labels[i], "element", None, None)]

\* The intervals argument: None or a list of interval names.
IntervalArgs == {None} \cup {Some(Prefix(interval_labels, n)) : n \in 0..MaxIntervals}

\* A node_size / link_width list: one or two sizes, in any order.
SizeLists == {<<x>> : x \in 1..MaxSize} \cup {<<x, y>> : x \in 1..MaxSize, y \in 1..MaxSize}

LegendSizeChoices == {SizeNone, SizeScalar(30)} \cup {SizeList(l) : l \in SizeLists}

SizeIntervalChoices == {None} \cup {Some(n) : n \in 0..MaxSizeIntervals}

LabelChoices == {None} \cup {Some(Prefix(size_labels, n)) : n \in 0..MaxLabels}

\* The arguments of draw_legend: either the legend switches vary and no size
\* legend is asked for, or the size-legend arguments vary on fresh axes with the
\* switches at their defaults.
LegendArgs ==
    {[ax_handles |-> AxHandles(d, b), intervals |-> iv,
      draw_pumps |-> dp, pump_arrows |-> pa, draw_base_links |-> dl,
      base_link_arrows |-> la, draw_base_legend |-> bl, draw_intervals_legend |-> il,
      node_size |-> SizeNone, link_width |-> SizeNone,
      element_size_intervals |-> None, element_size_legend_labels |-> None] :
        d \in 0..MaxIntervals, b \in 0..MaxBase, iv \in IntervalArgs,
        dp \in BOOLEAN, pa \in BOOLEAN, dl \in BOOLEAN, la \in BOOLEAN,
        bl \in BOOLEAN, il \in BOOLEAN}
    \cup
    {[ax_handles |-> <<>>, intervals |-> None,
      draw_pumps |-> TRUE, pump_arrows |-> FALSE, draw_base_links |-> TRUE,
      base_link_arrows |-> FALSE, draw_base_legend |-> TRUE, draw_intervals_legend |-> TRUE,
      node_size |-> ns, link_width |-> lw,
      element_size_intervals |-> n, element_size_legend_labels |-> lb] :
        ns \in LegendSizeChoices, lw \in LegendSizeChoices,
        n \in SizeIntervalChoices, lb \in LabelChoices}

\* The arguments of plot_basic_elements: an axes object or none, a model with
\* or without pumps, and every switch either way.
PlotArgs ==
    {[ax |-> ax, has_pumps |-> hp, draw_nodes |-> dn, draw_links |-> dl,
      draw_reservoirs |-> dr, draw_tanks |-> dt, draw_pumps |-> dp,
      draw_valves |-> dv, savefig |-> sf, legend |-> lg] :
        ax \in {None, Some("ax")}, hp \in BOOLEAN, dn \in BOOLEAN, dl \in BOOLEAN,
        dr \in BOOLEAN, dt \in BOOLEAN, dp \in BOOLEAN, dv \in BOOLEAN,
        sf \in BOOLEAN, lg \in BOOLEAN}

\* The arguments of draw_label: label texts (a free text or the name of a
\* node), offsets on either side of zero, and the nodes the labels belong to.
LabelArgs ==
    {[labels |-> lb, x_coords |-> xs, y_coords |-> ys, draw_nodes |-> dn, draw_arrow |-> da] :
        lb \in SeqsUpTo({"A", "J1"}, MaxEntries),
        xs \in SeqsUpTo({-1, 0, 1}, MaxEntries),
        ys \in SeqsUpTo({2}, MaxEntries),
        dn \in {None} \cup {Some(l) : l \in SeqsUpTo({"J1", "J2"}, MaxEntries)},
        da \in BOOLEAN}

\* ------------------------------------------------------------ actions
Init ==
    /\ pc = "idle"
    /\ op = "none"
    /\ args = None
    /\ ret = None

CallDrawNodes ==
    /\ pc = "idle"
    /\ \E nl \in NodeLists, pr \in Series, lo \in VminChoices, hi \in VmaxChoices,
          ns \in NodeSizeChoices, lb \in {None, Some("data")} :
          LET a == [node_list |-> nl, parameter_results |-> pr, vmin |-> lo,
                    vmax |-> hi, node_size |-> ns, label |-> lb]
          IN  /\ args' = a
              /\ ret' \in draw_nodes(a)
    /\ op' = "draw_nodes"
    /\ pc' = "done"

CallDrawLinks ==
    /\ pc = "idle"
    /\ \E ll \in LinkLists, pr \in Series, lo \in VminChoices, hi \in VmaxChoices,
          lw \in LinkWidthChoices :
          LET a == [link_list |-> ll, parameter_results |-> pr, vmin |-> lo,
                    vmax |-> hi, link_width |-> lw]
          IN  /\ args' = a
              /\ ret' \in draw_links(a)
    /\ op' = "draw_links"
    /\ pc' = "done"

\* model.bin_parameter(stddev, elmnt_list, 5), line 18 of the example, for any
\* series and interval count.
CallBinParameter ==
    /\ pc = "idle"
    /\ \E vs \in BinSeries, el \in ElementLists, k \in 0..MaxK :
          LET a == [values |-> vs, elements |-> el, k |-> k]
          IN  /\ args' = a
              /\ ret' \in bin_parameter(vs, el, k)
    /\ op' = "bin_parameter"
    /\ pc' = "done"

\* Lines 20-25 of the example, which follow the binning: the per-node sizes built
\* from the partition and the caller's interval_sizes.
AssignSizes ==
    /\ pc = "done"
    /\ op = "bin_parameter"
    /\ ret.status = "ok"
    /\ \E sz \in IntervalSizes :
          /\ args' = [elmnt_list |-> args.elements,
                      binned |-> ret.out.binned,
                      interval_names |-> ret.out.interval_names,
                      interval_sizes |-> sz]
          /\ ret' = Ok(NodeSizes(args.elements, ret.out.binned,
                                 ret.out.interval_names, sz))
    /\ op' = "assign_sizes"
    /\ pc' = "done"

CallDrawLegend ==
    /\ pc = "idle"
    /\ \E a \in LegendArgs :
          /\ args' = a
          /\ ret' = draw_legend(a)
    /\ op' = "draw_legend"
    /\ pc' = "done"

CallPlotBasicElements ==
    /\ pc = "idle"
    /\ \E a \in PlotArgs :
          /\ args' = a
          /\ ret' = plot_basic_elements(a)
    /\ op' = "plot_basic_elements"
    /\ pc' = "done"

CallDrawLabel ==
    /\ pc = "idle"
    /\ \E a \in LabelArgs :
          /\ args' = a
          /\ ret' = draw_label(a)
    /\ op' = "draw_label"
    /\ pc' = "done"

\* The call is over: nothing of it is kept.
Return ==
    /\ pc = "done"
    /\ pc' = "idle"
    /\ op' = "none"
    /\ args' = None
    /\ ret' = None

NextColour == CallDrawNodes \/ CallDrawLinks \/ Return

SpecColour == Init /\ [][NextColour]_vars

NextBin == CallBinParameter \/ AssignSizes \/ Return

SpecBin == Init /\ [][NextBin]_vars

NextLegend == CallDrawLegend \/ Return

SpecLegend == Init /\ [][NextLegend]_vars

NextPlot == CallPlotBasicElements \/ CallDrawLabel \/ Return

SpecPlot == Init /\ [][NextPlot]_vars

Next ==
    \/ CallDrawNodes
    \/ CallDrawLinks
    \/ CallBinParameter
    \/ AssignSizes
    \/ CallDrawLegend
    \/ CallPlotBasicElements
    \/ CallDrawLabel
    \/ Return

Spec == Init /\ [][Next]_vars

\* ============================================================ claims
\* A finished draw_nodes / draw_links call that made its drawing call.
Drew == pc = "done" /\ op \in {"draw_nodes", "draw_links"} /\ ret.status = "ok"

\* The data of the call has a minimum below -1e-5.
SignedData == args.parameter_results # <<>> /\ NpMin(args.parameter_results) < NegEps

\* The largest magnitude of the data of the call.
MaxMagnitude == NpMax([i \in 1..Len(args.parameter_results) |->
                         Abs(args.parameter_results[i])])

\* C1: with data whose minimum is below -1e-5 and neither vmin nor vmax given,
\* draw_nodes and draw_links hand the drawing call the domain [-M, +M], where M
\* is the largest magnitude max(|v|) of the data.
C1_DomainIsMaxMagnitude ==
    (Drew /\ SignedData /\ args.vmin = None /\ args.vmax = None)
        => (ret.out.vmin = Some(-MaxMagnitude) /\ ret.out.vmax = Some(MaxMagnitude))

\* C2, as claimed: with data whose minimum is below -1e-5, the zero-symmetric
\* domain is used unless both endpoints were given; with exactly one given it is
\* still used, with both given the caller's endpoints are passed unchanged.
C2_SymmetricUnlessBothGiven ==
    (Drew /\ SignedData)
        => IF args.vmin # None /\ args.vmax # None
           THEN ret.out.vmin = args.vmin /\ ret.out.vmax = args.vmax
           ELSE /\ ret.out.vmin # None
                /\ ret.out.vmax # None
                /\ Val(ret.out.vmin) = -Val(ret.out.vmax)

\* C2, amended: with data whose minimum is below -1e-5, the zero-symmetric
\* domain (vmin = -vmax) is forced only when neither endpoint was given; with
\* one or both given, the caller's vmin and vmax are passed unchanged, an unset
\* one staying unset.
C2_SymmetricOnlyWhenNoneGiven ==
    (Drew /\ SignedData)
        => IF args.vmin = None /\ args.vmax = None
           THEN /\ ret.out.vmin # None
                /\ ret.out.vmax # None
                /\ Val(ret.out.vmin) = -Val(ret.out.vmax)
           ELSE ret.out.vmin = args.vmin /\ ret.out.vmax = args.vmax

\* C2, witness: a draw_nodes call on signed data with only vmax given passed vmin unset.
C2_Witness ==
    /\ Drew /\ SignedData
    /\ op = "draw_nodes"
    /\ args.vmin = None /\ args.vmax # None
    /\ ret.out.vmin = None /\ ret.out.vmax = args.vmax

\* C3: with non-empty data whose minimum is not below -1e-5 (exactly -1e-5 and
\* tiny negatives included) no symmetry is forced: the drawing call gets no
\* vmin / vmax when none was given, and exactly the caller's when given.
C3_NoForcedSymmetry ==
    (Drew /\ args.parameter_results # <<>> /\ NpMin(args.parameter_results) >= NegEps)
        => (ret.out.vmin = args.vmin /\ ret.out.vmax = args.vmax)

\* C3, witness: a draw_links call whose data minimum is exactly -1e-5, no endpoint given,
\* passed neither vmin nor vmax.
C3_Witness ==
    /\ Drew
    /\ op = "draw_links"
    /\ args.parameter_results # <<>>
    /\ NpMin(args.parameter_results) = NegEps
    /\ NpMax(args.parameter_results) > 0
    /\ args.vmin = None /\ args.vmax = None
    /\ ret.out.vmin = None /\ ret.out.vmax = None

\* A finished bin_parameter call.
Binned == pc = "done" /\ op = "bin_parameter"

\* The input of the bin_parameter call is valid: a non-empty series, as many
\* values as elements, no duplicate element, finite values, and k >= 1.
ValidBinInput ==
    /\ Len(args.elements) >= 1
    /\ Len(args.values) = Len(args.elements)
    /\ \A i, j \in 1..Len(args.elements) : i # j => args.elements[i] # args.elements[j]
    /\ \A i \in 1..Len(args.values) : args.values[i] \in (-1)..MaxBinVal
    /\ args.k >= 1

\* C4: for a valid series and k >= 1 the partition places every element in
\* exactly one interval: the interval sets are pairwise disjoint and their union
\* is the element set.
C4_PartitionTotalDisjoint ==
    (Binned /\ ValidBinInput)
        => /\ ret.status = "ok"
           /\ DOMAIN ret.out.binned = Range(ret.out.interval_names)
           /\ UNION {ret.out.binned[nm] : nm \in DOMAIN ret.out.binned} = Range(args.elements)
           /\ \A e \in Range(args.elements) :
                 Cardinality({i \in 1..Len(ret.out.interval_names) :
                                 e \in ret.out.binned[ret.out.interval_names[i]]}) = 1

\* C4, witness: three elements with three different values were spread over two intervals.
C4_Witness ==
    /\ Binned /\ ValidBinInput
    /\ ret.status = "ok"
    /\ Len(args.elements) = 3
    /\ args.k = 2
    /\ Cardinality(Range(args.values)) = 3
    /\ \A nm \in DOMAIN ret.out.binned : ret.out.binned[nm] # {}

\* The intervals of the result are n contiguous equal-width sub-ranges spanning
\* [min, max]; each element lies in an interval whose range holds its value, a
\* value on an interior boundary in the lower-numbered one, the maximum in the
\* last; every interval, empty or not, is in the partition.
BinsAre(n) ==
    LET names == ret.out.interval_names
        mn    == NpMin(args.values)
        mx    == NpMax(args.values)
    IN  /\ ret.status = "ok"
        /\ Len(names) = n
        /\ DOMAIN ret.out.binned = Range(names)
        /\ \A i \in 1..n : /\ names[i].den > 0
                            /\ (names[i].hi - names[i].lo) * n = (mx - mn) * names[i].den
        /\ names[1].lo = mn * names[1].den
        /\ names[n].hi = mx * names[n].den
        /\ \A i \in 1..(n - 1) : names[i].hi * names[i + 1].den = names[i + 1].lo * names[i].den
        /\ \A i \in 1..n : \A j \in 1..Len(args.elements) :
              (args.elements[j] \in ret.out.binned[names[i]])
                  <=> \/ /\ names[i].lo < args.values[j] * names[i].den
                         /\ args.values[j] * names[i].den <= names[i].hi
                      \/ i = 1 /\ args.values[j] = mn

\* C5, as claimed: the binning gives k contiguous equal-width sub-ranges over
\* [min, max], a value on an interior boundary in the lower-numbered interval,
\* the maximum in the last, and empty intervals as empty sets.
C5_AlwaysKIntervals == (Binned /\ ValidBinInput) => BinsAre(args.k)

\* C5, amended: as claimed for a series with min < max; a constant series
\* (min = max) gives a single interval covering that value, whatever k is.
C5_KIntervalsUnlessConstant ==
    (Binned /\ ValidBinInput)
        => BinsAre(IF NpMin(args.values) = NpMax(args.values) THEN 1 ELSE args.k)

\* C5, witness: values -1, 0, 3 in four intervals of width 1: -1 and the boundary value 0 are
\* in the first, the maximum 3 in the last, the two between are empty.
C5_Witness ==
    /\ Binned
    /\ args.values = <<-1, 0, 3>>
    /\ args.elements = <<"J1", "J2", "J3">>
    /\ args.k = 4
    /\ ret.status = "ok"
    /\ Len(ret.out.interval_names) = 4
    /\ ret.out.binned[ret.out.interval_names[1]] = {"J1", "J2"}
    /\ ret.out.binned[ret.out.interval_names[2]] = {}
    /\ ret.out.binned[ret.out.interval_names[3]] = {}
    /\ ret.out.binned[ret.out.interval_names[4]] = {"J3"}

\* A finished draw_nodes call whose node_size was a (min_size, max_size) tuple
\* with both entries set and min_size <= max_size, on a non-empty series.
ScaledCall ==
    /\ pc = "done" /\ op = "draw_nodes"
    /\ args.node_size.kind = "tuple"
    /\ args.node_size.v[1] # None /\ args.node_size.v[2] # None
    /\ Val(args.node_size.v[1]) <= Val(args.node_size.v[2])
    /\ args.parameter_results # <<>>

\* The sizes handed to the drawing call are one exact quotient per value, in the
\* order of the values, each within [min_size, max_size].
ScaledWithinRange ==
    LET lo  == Val(args.node_size.v[1])
        hi  == Val(args.node_size.v[2])
        pr  == args.parameter_results
    IN  /\ ret.status = "ok"
        /\ ret.out.size.kind = "scaled"
        /\ Len(ret.out.size.v) = Len(pr)
        /\ \A i \in 1..Len(pr) :
              /\ ret.out.size.v[i].den > 0
              /\ lo * ret.out.size.v[i].den <= ret.out.size.v[i].num
              /\ ret.out.size.v[i].num <= hi * ret.out.size.v[i].den
        /\ \A i, j \in 1..Len(pr) :
              pr[i] <= pr[j]
                  => ret.out.size.v[i].num * ret.out.size.v[j].den
                         <= ret.out.size.v[j].num * ret.out.size.v[i].den

\* The observed maximum maps to max_size and the observed minimum to min_size.
ExtremesMapToBounds ==
    LET lo  == Val(args.node_size.v[1])
        hi  == Val(args.node_size.v[2])
        pr  == args.parameter_results
    IN  \A i \in 1..Len(pr) :
            /\ pr[i] = NpMax(pr) => ret.out.size.v[i].num = hi * ret.out.size.v[i].den
            /\ pr[i] = NpMin(pr) => ret.out.size.v[i].num = lo * ret.out.size.v[i].den

\* C6, as claimed: for every series and [minOut, maxOut] with minOut <= maxOut
\* every scaled output lies in [minOut, maxOut], the observed maximum maps to
\* maxOut and the observed minimum to minOut, and the outputs are in input order.
C6_ExtremesAlwaysMapToBounds == ScaledCall => (ScaledWithinRange /\ ExtremesMapToBounds)

\* C6, amended: every scaled output lies in [minOut, maxOut] and the outputs are
\* in input order; the observed maximum maps to maxOut and the observed minimum
\* to minOut when the series is not constant (min < max).
C6_ScaledIntoRange ==
    ScaledCall
        => /\ ScaledWithinRange
           /\ NpMin(args.parameter_results) < NpMax(args.parameter_results)
                 => ExtremesMapToBounds

\* C6, witness: a two-value series, larger value first, was scaled onto [1, 2]: sizes 2, 1.
C6_Witness ==
    /\ ScaledCall
    /\ Len(args.parameter_results) = 2
    /\ args.parameter_results[1] > args.parameter_results[2]
    /\ args.node_size.v = <<Some(1), Some(2)>>
    /\ ret.status = "ok"
    /\ ret.out.size.v[1].num = 2 * ret.out.size.v[1].den
    /\ ret.out.size.v[2].num = 1 * ret.out.size.v[2].den

\* C7: scaling a constant series (min = max) gives every element exactly the
\* midpoint (minOut + maxOut) / 2, without an error.
C7_ConstantSeriesMidpoint ==
    (ScaledCall /\ NpMin(args.parameter_results) = NpMax(args.parameter_results))
        => /\ ret.status = "ok"
           /\ ret.out.size.kind = "scaled"
           /\ Len(ret.out.size.v) = Len(args.parameter_results)
           /\ \A i \in 1..Len(args.parameter_results) :
                 2 * ret.out.size.v[i].num
                     = (Val(args.node_size.v[1]) + Val(args.node_size.v[2]))
                           * ret.out.size.v[i].den

\* C7, witness: a constant series of two values was scaled onto [1, 2]: both sizes are 3/2.
C7_Witness ==
    /\ ScaledCall
    /\ Len(args.parameter_results) = 2
    /\ args.parameter_results[1] = args.parameter_results[2]
    /\ args.node_size.v = <<Some(1), Some(2)>>
    /\ ret.status = "ok"
    /\ ret.out.size.v = <<[num |-> 3, den |-> 2], [num |-> 3, den |-> 2]>>

\* C8: the size assignment gives every element of interval i the size at
\* position i, so that every element has a size; when the number of sizes
\* differs from the number of intervals it fails with SizeCountMismatch.
C8_EverySizedOrMismatch ==
    (pc = "done" /\ op = "assign_sizes")
        => IF Len(args.interval_sizes) = Len(args.interval_names)
           THEN /\ ret.status = "ok"
                /\ \A i \in 1..Len(args.interval_names) :
                      \A j \in 1..Len(args.elmnt_list) :
                          args.elmnt_list[j] \in args.binned[args.interval_names[i]]
                              => ret.out[j] = Some(args.interval_sizes[i])
           ELSE ret.status = "raised" /\ ret.error = "SizeCountMismatch"

\* The error kinds the input of the bin_parameter call calls for.
InvalidKinds ==
    {e \in {"InvalidIntervalCount", "EmptySeries", "LengthMismatch", "NonFiniteValue"} :
        \/ e = "EmptySeries" /\ args.elements = <<>>
        \/ e = "InvalidIntervalCount" /\ args.k < 1
        \/ e = "LengthMismatch" /\ Len(args.elements) # Len(args.values)
        \/ e = "NonFiniteValue" /\ \E i \in 1..Len(args.values) :
                                       args.values[i] \notin (-1)..MaxBinVal}

\* C9: invalid input is rejected without partial results: an empty element
\* series fails with EmptySeries, k < 1 with InvalidIntervalCount, lists of
\* different lengths with LengthMismatch, a non-finite value with
\* NonFiniteValue (one of the kinds that apply when several do), and no
\* partition or labels are produced.
C9_InvalidInputRejected ==
    (Binned /\ InvalidKinds # {})
        => /\ ret.status = "raised"
           /\ ret.error \in InvalidKinds
           /\ ret.out = None

\* C9, witness: a series with a non-finite value and nothing else wrong raised NonFiniteValue.
C9_Witness ==
    /\ Binned
    /\ InvalidKinds = {"NonFiniteValue"}
    /\ Len(args.values) = 2
    /\ ret.status = "raised"
    /\ ret.error = "NonFiniteValue"

\* Sample i of n taken evenly between the smallest and the largest of sizes, as
\* the quotient num/den.
SampleNum(sizes, n, i) ==
    IF n = 1 THEN NpMin(sizes)
    ELSE NpMin(sizes) * (n - 1) + (i - 1) * (NpMax(sizes) - NpMin(sizes))

SampleDen(n) == IF n = 1 THEN 1 ELSE n - 1

\* C10: in the node-size legend every entry's marker size is the square root of
\* the sample size it stands for (to 1/Scale), the samples taken evenly between
\* min(node_size) and max(node_size); in the link-width legend every entry's
\* line width is the sample width itself.
C10_MarkerIsSqrtOfSize ==
    (pc = "done" /\ op = "draw_legend")
        => \A l \in 1..Len(ret.out) :
             LET h == ret.out[l].handles
                 n == Val(args.element_size_intervals)
             IN  /\ ret.out[l].which = "node_size"
                     => \A i \in 1..Len(h) :
                          LET m == Val(h[i].markersize)
                          IN  /\ h[i].markersize # None
                              /\ m >= 0
                              /\ m * m * SampleDen(n)
                                    <= SampleNum(args.node_size.v, n, i) * Scale * Scale
                              /\ SampleNum(args.node_size.v, n, i) * Scale * Scale
                                    < (m + 1) * (m + 1) * SampleDen(n)
                 /\ ret.out[l].which = "link_width"
                     => \A i \in 1..Len(h) :
                          /\ h[i].markersize = None
                          /\ h[i].linewidth # None
                          /\ Val(h[i].linewidth).num * SampleDen(n)
                                = SampleNum(args.link_width.v, n, i) * Val(h[i].linewidth).den

\* C10, witness: sizes [3, 1] and widths [1, 3] in three intervals: the middle node entry has
\* marker size sqrt(2) = 1.4, the middle link entry has width 2.
C10_Witness ==
    /\ pc = "done" /\ op = "draw_legend"
    /\ ret.status = "ok"
    /\ args.node_size = SizeList(<<3, 1>>)
    /\ args.link_width = SizeList(<<1, 3>>)
    /\ args.element_size_intervals = Some(3)
    /\ Len(ret.out) = 3
    /\ ret.out[2].which = "node_size"
    /\ Len(ret.out[2].handles) = 3
    /\ ret.out[2].handles[2].markersize = Some(14)
    /\ ret.out[3].which = "link_width"
    /\ Val(ret.out[3].handles[2].linewidth).num = 2 * Val(ret.out[3].handles[2].linewidth).den

\* A finished draw_legend call.
LegendDone == pc = "done" /\ op = "draw_legend"

\* The list whose sizes the element-size legend `which` stands for.
SizesOf(which) == IF which = "node_size" THEN args.node_size.v ELSE args.link_width.v

\* Entry h of the element-size legend `which` stands for the exact sample q.
StandsFor(which, h, q) ==
    IF which = "node_size"
    THEN h.markersize = Some(NpSqrt(q))
    ELSE /\ h.linewidth # None
         /\ Val(h.linewidth).num * q.den = q.num * Val(h.linewidth).den

\* Entry g does not stand for a larger size than entry h.
NotLarger(which, g, h) ==
    IF which = "node_size"
    THEN Val(g.markersize) <= Val(h.markersize)
    ELSE Val(g.linewidth).num * Val(h.linewidth).den
            <= Val(h.linewidth).num * Val(g.linewidth).den

\* C11: the entries of an element-size legend are in ascending order of the
\* size they stand for, whatever the order of the node_size / link_width list:
\* the first entry stands for the smallest supplied size, the last entry for
\* the largest one when at least two intervals are requested, and the i-th
\* entry carries the caller's i-th label.
C11_SizeLegendAscending ==
    LegendDone
        => \A l \in 1..Len(ret.out) :
             LET w     == ret.out[l].which
                 h     == ret.out[l].handles
                 sizes == SizesOf(w)
             IN  (w \in {"node_size", "link_width"} /\ Len(h) >= 1)
                    => /\ \A i \in 1..(Len(h) - 1) : NotLarger(w, h[i], h[i + 1])
                       /\ StandsFor(w, h[1], [num |-> NpMin(sizes), den |-> 1])
                       /\ Val(args.element_size_intervals) >= 2
                            => StandsFor(w, h[Len(h)], [num |-> NpMax(sizes), den |-> 1])
                       /\ \A i \in 1..Len(h) :
                            h[i].label = Val(args.element_size_legend_labels)[i]

\* The edge of a link of the model, written as the link's name: pipe_list holds
\* the edges in the order of the link names.
EdgeOf(name) == name

\* C12: draw_links hands the drawing call the edges of the links named in
\* link_list, and of no other link, for every subset and reordering of the
\* model's links, with signed data, unsigned data and no data.
C12_DrawsNamedLinks ==
    (Drew /\ op = "draw_links")
        => /\ Len(ret.out.list) = Len(args.link_list)
           /\ {ret.out.list[i] : i \in 1..Len(ret.out.list)}
                 = {EdgeOf(args.link_list[i]) : i \in 1..Len(args.link_list)}

\* A finished plot_basic_elements call whose drawing switches are the defaults
\* (everything drawn, own axes).
PlotDefaults ==
    /\ pc = "done" /\ op = "plot_basic_elements"
    /\ args.ax = None
    /\ args.draw_nodes /\ args.draw_links /\ args.draw_reservoirs
    /\ args.draw_tanks /\ args.draw_pumps /\ args.draw_valves

\* C13: plot_basic_elements with default arguments completes without raising
\* and calls, in this order, draw_base_elements, then draw_legend only if
\* legend is true, then save_fig only if savefig is true; with legend and
\* savefig false it only draws the base elements.
C13_StepsInOrder ==
    PlotDefaults
        => /\ ret.status = "ok"
           /\ ret.out.calls =
                <<"draw_base_elements">>
                \o (IF args.legend THEN <<"draw_legend">> ELSE <<>>)
                \o (IF args.savefig THEN <<"save_fig">> ELSE <<>>)

\* C14: draw_label draws exactly one text per zipped (label, coordinate) entry.
\* Without draw_nodes text i is label i at the axes-fraction position
\* (x_coord, y_coord); with draw_nodes it is label i at
\* (node_x + x_coord, node_y + y_coord), right-aligned when draw_arrow is true
\* and x_coord < 0, left-aligned when draw_arrow is true and x_coord >= 0,
\* centred when draw_arrow is false.
C14_OneTextPerEntry ==
    (pc = "done" /\ op = "draw_label")
        => LET t == ret.out.texts
               n == IF args.draw_nodes = None
                    THEN ZipCount({Len(args.labels), Len(args.x_coords), Len(args.y_coords)})
                    ELSE ZipCount({Len(args.labels), Len(Val(args.draw_nodes)),
                                   Len(args.x_coords), Len(args.y_coords)})
           IN  /\ ret.status = "ok"
               /\ Len(t) = n
               /\ \A i \in 1..n :
                    /\ t[i].s = args.labels[i]
                    /\ IF args.draw_nodes = None
                       THEN /\ t[i].transform = "axes"
                            /\ t[i].x = args.x_coords[i]
                            /\ t[i].y = args.y_coords[i]
                       ELSE /\ t[i].transform = "data"
                            /\ t[i].x = coordinates[Val(args.draw_nodes)[i]][1] + args.x_coords[i]
                            /\ t[i].y = coordinates[Val(args.draw_nodes)[i]][2] + args.y_coords[i]
                            /\ t[i].ha = IF ~args.draw_arrow THEN "center"
                                         ELSE IF args.x_coords[i] < 0 THEN "right"
                                         ELSE "left"

\* The calls that stand for the inputs (lo, hi, vmin, vmax) of the colour-domain
\* decision: draw_nodes and draw_links on the two-value series (lo, hi), with
\* default node_size / link_width, no label and nothing else given.
ReferenceCalls(lo, hi, vmin, vmax) ==
    draw_nodes([node_list |-> <<>>, parameter_results |-> <<lo, hi>>, vmin |-> vmin,
                vmax |-> vmax, node_size |-> SizeNone, label |-> None])
    \cup
    draw_links([link_list |-> <<>>, parameter_results |-> <<lo, hi>>, vmin |-> vmin,
                vmax |-> vmax, link_width |-> SizeNone])

\* C15: the colour domain a draw_nodes or draw_links call hands on is decided by
\* (observed min, observed max, vmin, vmax) alone: it is the domain that both
\* draw_nodes and draw_links hand on for the two-value series (min, max) with
\* the same endpoints, whatever the other values of the series, node_size,
\* link_width, label and the lists drawn.  So two calls with the same min, max
\* and endpoints get the same domain, from either function.
C15_DomainFromExtremesOnly ==
    (Drew /\ args.parameter_results # <<>>)
        => \A o \in ReferenceCalls(NpMin(args.parameter_results),
                                   NpMax(args.parameter_results), args.vmin, args.vmax) :
             /\ o.status = "ok"
             /\ o.out.vmin = ret.out.vmin
             /\ o.out.vmax = ret.out.vmax

\* C15, witness: a draw_nodes call on the signed series (2, -3) with a scaled node_size
\* and a label, no endpoint given, handed on the domain (-2, 2).
C15_Witness ==
    /\ Drew
    /\ op = "draw_nodes"
    /\ args.parameter_results = <<2, -3>>
    /\ args.node_size.kind = "tuple"
    /\ args.label # None
    /\ args.vmin = None /\ args.vmax = None
    /\ ret.out.vmin = Some(-2) /\ ret.out.vmax = Some(2)

\* The handles draw_legend works with: those of the axes, then the appended ones.
AllHandles ==
    args.ax_handles \o Extensions(args.draw_pumps, args.pump_arrows,
                                  args.draw_base_links, args.base_link_arrows)

\* The number of places handle h has in the base and intervals legends drawn.
Places(h) ==
    Cardinality({p \in (1..Len(ret.out)) \X (1..Len(AllHandles)) :
                    /\ ret.out[p[1]].which \in {"base", "intervals"}
                    /\ p[2] <= Len(ret.out[p[1]].handles)
                    /\ ret.out[p[1]].handles[p[2]] = h})

\* C16: with a non-empty intervals list, whatever the number of labelled
\* handles on the axes, the intervals legend holds only handles of drawn data
\* intervals (so 'draw_pumps' and 'Pipes' are in the base legend only), and with
\* both legends drawn every handle is in exactly one of them.
C16_LegendsSplitHandles ==
    (LegendDone /\ args.intervals # None /\ Val(args.intervals) # <<>>)
        => /\ \A l \in 1..Len(ret.out) :
                ret.out[l].which = "intervals"
                    => \A i \in 1..Len(ret.out[l].handles) :
                          ret.out[l].handles[i].shows = "data"
           /\ (args.draw_base_legend /\ args.draw_intervals_legend)
                => \A i \in 1..Len(AllHandles) : Places(AllHandles[i]) = 1

\* The same call with pump_arrows = pa and base_link_arrows = la.
WithArrows(pa, la) == [args EXCEPT !.pump_arrows = pa, !.base_link_arrows = la]

\* The labels of the entries of the base and intervals legends drawn.
ShownLabels ==
    UNION {{ret.out[l].handles[i].label : i \in 1..Len(ret.out[l].handles)} :
              l \in {k \in 1..Len(ret.out) : ret.out[k].which \in {"base", "intervals"}}}

\* C17: the legends draw_legend makes do not depend on pump_arrows or
\* base_link_arrows: the call gives the same legends for every value of the two
\* flags.  The appended entries hold 'draw_pumps' exactly when draw_pumps is
\* true and 'Pipes' exactly when draw_base_links is true, and so do the legends
\* whenever the legends the handles fall into are drawn.
C17_ArrowFlagsIrrelevant ==
    LegendDone
        => /\ \A pa \in BOOLEAN, la \in BOOLEAN : draw_legend(WithArrows(pa, la)) = ret
           /\ LET e  == Extensions(args.draw_pumps, args.pump_arrows,
                                   args.draw_base_links, args.base_link_arrows)
                  el == {e[i].label : i \in 1..Len(e)}
                  allDrawn == /\ args.draw_base_legend
                              /\ (args.intervals = None \/ Val(args.intervals) = <<>>
                                    \/ args.draw_intervals_legend)
              IN  /\ ("draw_pumps" \in el) = args.draw_pumps
                  /\ ("Pipes" \in el) = args.draw_base_links
                  /\ allDrawn => /\ ("draw_pumps" \in ShownLabels) = args.draw_pumps
                                 /\ ("Pipes" \in ShownLabels) = args.draw_base_links

\* C17, witness: pumps drawn with arrows and no base links: the base legend ends with
\* the 'draw_pumps' entry and has no 'Pipes' entry.
C17_Witness ==
    /\ LegendDone
    /\ args.draw_pumps /\ args.pump_arrows
    /\ ~args.draw_base_links /\ args.base_link_arrows
    /\ args.draw_base_legend
    /\ args.intervals = None
    /\ Len(args.ax_handles) = 1
    /\ Len(ret.out) = 1
    /\ ret.out[1].which = "base"
    /\ Len(ret.out[1].handles) = 2
    /\ ret.out[1].handles[2] = LineHandle("draw_pumps")

\* C18: an element-size legend that draw_legend draws has exactly
\* element_size_intervals entries and shows every label of
\* element_size_legend_labels, also when the number of labels differs from
\* element_size_intervals; for a scalar or absent node_size / link_width no
\* element-size legend is drawn.
C18_SizeLegendComplete ==
    LegendDone
        => \A l \in 1..Len(ret.out) :
             LET w == ret.out[l].which
                 h == ret.out[l].handles
             IN  /\ w = "node_size" => args.node_size.kind = "list"
                 /\ w = "link_width" => args.link_width.kind = "list"
                 /\ w \in {"node_size", "link_width"}
                      => /\ Len(h) = Val(args.element_size_intervals)
                         /\ \A j \in 1..Len(Val(args.element_size_legend_labels)) :
                              \E i \in 1..Len(h) :
                                 h[i].label = Val(args.element_size_legend_labels)[j]

====
